---- MODULE Spec2Model ----
(***************************************************************************)
(* A model of the pomsky / rulex front end: the lexer (tokenize), the AST  *)
(* constructors (RepetitionKind::try_from, Alternation::new_rulex,         *)
(* Rulex::negate), the code generator (Repetition, Alternation, Grapheme)  *)
(* and the diagnostic engine (Diagnostic::from_parse_error and friends).   *)
(*                                                                         *)
(* Text is a sequence of characters; a character is a one-character        *)
(* string, except for the non-ASCII characters, which are written by their *)
(* code point ("U+E9") and have a UTF-8 length of more than one byte.      *)
(* Offsets and lengths are byte counts, as in the source.                  *)
(***************************************************************************)
EXTENDS Integers, Sequences, FiniteSets, TLC

VARIABLES src, input, offset, result, pc, call

vars == <<src, input, offset, result, pc, call>>

(***************************************************************************)
(* Bounds of the model.                                                    *)
(***************************************************************************)
\* longest source text given to tokenize, in pieces of an alphabet
MaxLen == 4

\* the repetition bounds tried are 0..MaxRep and a few large values
MaxRep == 5

\* longest list of rules given to Alternation::new_rulex
MaxRules == 3

\* most nodes (errors, Multiple ones counted) of a ParseError given to the
\* diagnostic engine
MaxNodes == 5

\* largest offset of an InvalidEscapeInStringAt error
MaxOffset == 3

\* longest name of a Unicode property after \p or \P
MaxName == 3

\* usize is as wide as a pointer of the target: 16, 32 or 64 bits.  The model
\* takes 16, the narrowest, which fits the integers of the model
UsizeBits == 16

(***************************************************************************)
(* Option<T>                                                               *)
(***************************************************************************)
None == [some |-> FALSE]

Some(x) == [some |-> TRUE, val |-> x]

(***************************************************************************)
(* Characters and their classes (char::is_whitespace, is_ascii_digit, ...).*)
(***************************************************************************)
AsciiDigit == {"0", "1", "2", "3", "4", "5", "6", "7", "8", "9"}

AsciiHexDigit == AsciiDigit \cup {"a", "b", "c", "d", "e", "f", "A", "B", "C", "D", "E", "F"}

AsciiAlphabetic ==
    {"a", "b", "c", "d", "e", "f", "g", "h", "i", "j", "k", "l", "m",
     "n", "o", "p", "q", "r", "s", "t", "u", "v", "w", "x", "y", "z",
     "A", "B", "C", "D", "E", "F", "G", "H", "I", "J", "K", "L", "M",
     "N", "O", "P", "Q", "R", "S", "T", "U", "V", "W", "X", "Y", "Z"}

AsciiAlphanumeric == AsciiAlphabetic \cup AsciiDigit

\* U+E9 is a two-byte letter, U+663 a two-byte digit that is no ASCII digit,
\* U+20AC a three-byte symbol
Alphabetic == AsciiAlphabetic \cup {"U+E9"}

Alphanumeric == Alphabetic \cup AsciiDigit \cup {"U+663"}

Whitespace == {" ", "\n", "\t"}

len_utf8(c) ==
    CASE c = "U+E9" -> 2
      [] c = "U+663" -> 2
      [] c = "U+20AC" -> 3
      [] OTHER -> 1

RECURSIVE ByteLen(_)
\* str::len: the length of a text in bytes
ByteLen(s) == IF s = <<>> THEN 0 ELSE len_utf8(Head(s)) + ByteLen(Tail(s))

Drop(s, n) == SubSeq(s, n + 1, Len(s))

Take(s, n) == SubSeq(s, 1, n)

RECURSIVE CharsIn(_, _)
\* how many leading characters of s make up its first n bytes; as in the
\* source, n must lie on a character boundary
CharsIn(s, n) == IF n = 0 THEN 0 ELSE 1 + CharsIn(Tail(s), n - len_utf8(Head(s)))

\* &s[n..]
SliceFrom(s, n) == Drop(s, CharsIn(s, n))

\* &s[a..b]
Slice(s, a, b) == SubSeq(s, CharsIn(s, a) + 1, CharsIn(s, b))

starts_with(s, lit) == Len(s) >= Len(lit) /\ Take(s, Len(lit)) = lit

RECURSIVE PrefixIn(_, _)
\* the number of leading characters of s that lie in the set S
PrefixIn(S, s) ==
    IF s = <<>> \/ Head(s) \notin S THEN 0 ELSE 1 + PrefixIn(S, Tail(s))

RECURSIVE PrefixNotIn(_, _)
\* the number of leading characters of s that do not lie in the set S
PrefixNotIn(S, s) ==
    IF s = <<>> \/ Head(s) \in S THEN 0 ELSE 1 + PrefixNotIn(S, Tail(s))

\* str::trim_start
trim_start(s) == Drop(s, PrefixIn(Whitespace, s))

\* str::find for a set of characters: the byte offset of the first one
find(s, S) ==
    LET n == PrefixNotIn(S, s)
    IN  IF n = Len(s) THEN None ELSE Some(ByteLen(Take(s, n)))

(***************************************************************************)
(* MicroRegex: the matcher vocabulary of the lexer.  A matcher is a record *)
(* and is_start interprets it: the result is None, or Some of the consumed *)
(* byte length and the value the match carries (the context of ctx).       *)
(***************************************************************************)
Punctuation ==
    {"%", "<", ">", ":", "*", "+", "?", "|", ")", "{", "}", ",", "!", "[",
     "-", "]", ".", ";", "=", "'", "\"", "^", "$", "(", "\\", "#", "_", "&",
     "@", "/"}

Char == Alphanumeric \cup Whitespace \cup Punctuation \cup {"U+20AC"}

Lit(s) == [k |-> "lit", s |-> s]

CharIs(S) == [k |-> "is", S |-> S]

Many0(S) == [k |-> "many0", S |-> S]

Many1(S) == [k |-> "many1", S |-> S]

Alt(ps) == [k |-> "alt", ps |-> ps]

Tuple(ps) == [k |-> "seq", ps |-> ps]

Ctx(p, c) == [k |-> "ctx", p |-> p, c |-> c]

Matched(len, v) == [some |-> TRUE, len |-> len, val |-> v]

RECURSIVE is_start(_, _)
is_start(p, s) ==
    CASE p.k = "lit" ->
            IF starts_with(s, p.s) THEN Matched(ByteLen(p.s), "unit") ELSE None
      [] p.k = "is" ->
            IF s /= <<>> /\ Head(s) \in p.S
            THEN Matched(len_utf8(Head(s)), "unit") ELSE None
      [] p.k = "many0" ->
            Matched(ByteLen(Take(s, PrefixIn(p.S, s))), "unit")
      [] p.k = "many1" ->
            IF PrefixIn(p.S, s) = 0 THEN None
            ELSE Matched(ByteLen(Take(s, PrefixIn(p.S, s))), "unit")
      [] p.k = "ctx" ->
            LET r == is_start(p.p, s)
            IN  IF r.some THEN Matched(r.len, p.c) ELSE None
      [] p.k = "alt" ->
            \* the first alternative that matches wins
            IF p.ps = <<>> THEN None
            ELSE LET r == is_start(Head(p.ps), s)
                 IN  IF r.some THEN r ELSE is_start(Alt(Tail(p.ps)), s)
      [] p.k = "seq" ->
            \* each part in order; the length is the sum, the value the last one's
            IF p.ps = <<>> THEN Matched(0, "unit")
            ELSE LET r == is_start(Head(p.ps), s)
                 IN  IF ~r.some THEN None
                     ELSE IF Len(p.ps) = 1 THEN r
                     ELSE LET q == is_start(Tuple(Tail(p.ps)), SliceFrom(s, r.len))
                          IN  IF q.some THEN Matched(r.len + q.len, q.val) ELSE None

(***************************************************************************)
(* The hints a lexer error token carries (ParseErrorMsg).                  *)
(***************************************************************************)
ParseErrorMsg ==
    {"Caret", "CaretInGroup", "Dollar", "GroupNonCapturing", "GroupLookahead",
     "GroupLookaheadNeg", "GroupLookbehind", "GroupLookbehindNeg", "GroupComment",
     "GroupNamedCapture", "GroupPcreBackreference", "GroupAtomic",
     "GroupConditional", "GroupBranchReset", "GroupSubroutineCall", "GroupOther",
     "UnclosedString", "Backslash", "BackslashU4", "BackslashX2",
     "BackslashUnicode", "BackslashGK", "BackslashProperty"}

\* Many1 of the characters of a name after \k, \g or \p
backslash_ident == Many1(AsciiAlphanumeric \cup {"-", "+", "_"})

after_gk ==
    Alt(<<Tuple(<<Lit(<<"<">>), backslash_ident, Lit(<<">">>)>>),
          Tuple(<<Lit(<<"{">>), backslash_ident, Lit(<<"}">>)>>),
          Tuple(<<Lit(<<"'">>), backslash_ident, Lit(<<"'">>)>>),
          Tuple(<<Alt(<<Lit(<<"-">>), Lit(<<"+">>), Lit(<<>>)>>), CharIs(AsciiDigit)>>)>>)

after_p ==
    Alt(<<CharIs(AsciiAlphanumeric),
          Tuple(<<Lit(<<"{">>), backslash_ident, Lit(<<"}">>)>>),
          Tuple(<<Lit(<<"{", "^">>), backslash_ident, Lit(<<"}">>)>>)>>)

\* what may follow a backslash, in the order it is tried
after_backslash ==
    LET hex == CharIs(AsciiHexDigit)
    IN  <<Ctx(Tuple(<<Alt(<<Lit(<<"u", "{">>), Lit(<<"x", "{">>)>>),
                      Many1(AsciiHexDigit), Lit(<<"}">>)>>),
              "BackslashUnicode"),
          Ctx(Tuple(<<Lit(<<"u">>), hex, hex, hex, hex>>), "BackslashU4"),
          Ctx(Tuple(<<Lit(<<"x">>), hex, hex>>), "BackslashX2"),
          Ctx(Tuple(<<Alt(<<Lit(<<"k">>), Lit(<<"g">>)>>), after_gk>>), "BackslashGK"),
          Ctx(Tuple(<<Alt(<<Lit(<<"p">>), Lit(<<"P">>)>>), after_p>>), "BackslashProperty"),
          Ctx(CharIs(Char), "Backslash")>>

parse_backslash(s) ==
    is_start(Tuple(<<Lit(<<"\\">>), Alt(after_backslash)>>), s)

\* what may follow "(?", in the order it is tried
after_open ==
    LET ident == Many1(AsciiAlphanumeric \cup {"-", "+"})
    IN  <<Ctx(Lit(<<":">>), "GroupNonCapturing"),
          Ctx(Lit(<<"=">>), "GroupLookahead"),
          Ctx(Lit(<<"!">>), "GroupLookaheadNeg"),
          Ctx(Lit(<<">">>), "GroupAtomic"),
          Ctx(Lit(<<"(">>), "GroupConditional"),
          Ctx(Lit(<<"|">>), "GroupBranchReset"),
          Ctx(Lit(<<"<", "=">>), "GroupLookbehind"),
          Ctx(Lit(<<"<", "!">>), "GroupLookbehindNeg"),
          Ctx(Tuple(<<Alt(<<Lit(<<"P", "<">>), Lit(<<"<">>)>>), ident, Lit(<<">">>)>>),
              "GroupNamedCapture"),
          Ctx(Tuple(<<Lit(<<"'">>), ident, Lit(<<"'">>)>>), "GroupNamedCapture"),
          Ctx(Tuple(<<Lit(<<"P", "=">>), ident, Lit(<<")">>)>>), "GroupPcreBackreference"),
          Ctx(Alt(<<Lit(<<"P", ">">>), Lit(<<"&">>)>>), "GroupSubroutineCall"),
          Ctx(Tuple(<<Lit(<<"#">>), Many0(Char \ {")"}), Lit(<<")">>)>>), "GroupComment"),
          Ctx(Lit(<<>>), "GroupOther")>>

\* parse_special_group without the last form, the empty one of GroupOther
parse_special_group_known_only(s) ==
    is_start(Tuple(<<Lit(<<"(", "?">>), Alt(Take(after_open, Len(after_open) - 1))>>), s)

parse_special_group(s) ==
    is_start(Tuple(<<Lit(<<"(", "?">>), Alt(after_open)>>), s)

RECURSIVE find_unescaped_quote_from(_, _)
\* the loop of find_unescaped_quote; s is the rest still to search
find_unescaped_quote_from(inp, s) ==
    LET f == find(s, {"\\", "\""})
    IN  IF ~f.some THEN None
        ELSE LET at == SliceFrom(s, f.val)
             IN  IF Head(at) = "\"" THEN Some(f.val + (ByteLen(inp) - ByteLen(s)))
                 ELSE IF Len(at) >= 2
                      THEN find_unescaped_quote_from(
                               inp, SliceFrom(s, f.val + 1 + len_utf8(at[2])))
                      ELSE None

\* the search that stops at the first double quote, escaped or not
find_first_quote(inp) == find(inp, {"\""})

find_unescaped_quote(inp) == find_unescaped_quote_from(inp, inp)

(***************************************************************************)
(* tokenize                                                                *)
(***************************************************************************)
RECURSIVE skip_comments_over_newline(_)
\* skip_comments taking the character after the comment with it
skip_comments_over_newline(s) ==
    IF s /= <<>> /\ Head(s) = "#"
    THEN skip_comments_over_newline(
             trim_start(Drop(s, PrefixNotIn({"\n"}, s) + 2)))
    ELSE s

RECURSIVE skip_comments(_)
\* while input.starts_with('#') { skip to the newline, then trim_start }
skip_comments(s) ==
    IF s /= <<>> /\ Head(s) = "#"
    THEN skip_comments(trim_start(Drop(s, PrefixNotIn({"\n"}, s))))
    ELSE s

\* the head of the loop: whitespace and comments are dropped
skip_trivia(s) == skip_comments(trim_start(s))

Tok(len, token) == [len |-> len, token |-> token, msg |-> "none"]

TokMsg(len, msg) == [len |-> len, token |-> "ErrorMsg", msg |-> msg]

SingleCharTokens ==
    [c \in {"%", "*", "+", "?", "|", ":", ")", "{", "}", ",", "!", "[", "-", "]",
            ".", ";", "="} |->
        CASE c = "%" -> "BWord"
          [] c = "*" -> "Star"
          [] c = "+" -> "Plus"
          [] c = "?" -> "QuestionMark"
          [] c = "|" -> "Pipe"
          [] c = ":" -> "Colon"
          [] c = ")" -> "CloseParen"
          [] c = "{" -> "OpenBrace"
          [] c = "}" -> "CloseBrace"
          [] c = "," -> "Comma"
          [] c = "!" -> "Not"
          [] c = "[" -> "OpenBracket"
          [] c = "-" -> "Dash"
          [] c = "]" -> "CloseBracket"
          [] c = "." -> "Dot"
          [] c = ";" -> "Semicolon"
          [] c = "=" -> "Equals"]

\* "U+" and one or more hex digits
code_point_form == Tuple(<<Lit(<<"U", "+">>), Many1(AsciiHexDigit)>>)

\* one or more ASCII digits
number_form == Many1(AsciiDigit)

\* a letter or _, then letters, digits and _
identifier_form ==
    Tuple(<<CharIs(Alphabetic \cup {"_"}), Many0(Alphanumeric \cup {"_"})>>)

\* the rules of consume_chain! after the two-byte operators, for a non-empty
\* input s: the first that applies gives the token and its length
consume_chain_after_operators(s) ==
    LET c == Head(s)
        code_point == is_start(code_point_form, s)
        number == is_start(number_form, s)
        identifier == is_start(identifier_form, s)
        special_group == parse_special_group(s)
        backslash == parse_backslash(s)
    IN  CASE c \in DOMAIN SingleCharTokens -> Tok(1, SingleCharTokens[c])
          [] c = "'" ->
                LET f == find(Tail(s), {"'"})
                IN  IF f.some THEN Tok(f.val + 2, "String")
                    ELSE TokMsg(ByteLen(s), "UnclosedString")
          [] c = "\"" ->
                LET f == find_unescaped_quote(Tail(s))
                IN  IF f.some THEN Tok(f.val + 2, "String")
                    ELSE TokMsg(ByteLen(s), "UnclosedString")
          [] OTHER ->
        IF code_point.some THEN Tok(code_point.len, "CodePoint")
        ELSE IF number.some THEN Tok(number.len, "Number")
        ELSE IF identifier.some THEN Tok(identifier.len, "Identifier")
        ELSE IF c = "^" THEN TokMsg(1, "Caret")
        ELSE IF c = "$" THEN TokMsg(1, "Dollar")
        ELSE IF special_group.some THEN TokMsg(special_group.len, special_group.val)
        ELSE IF c = "(" THEN Tok(1, "OpenParen")
        ELSE IF backslash.some THEN TokMsg(backslash.len, backslash.val)
        ELSE Tok(len_utf8(c), "Error")

\* the chain with the % and : rules tried before the two-byte operators
consume_chain_one_byte_first(s) ==
    CASE Head(s) \in {"%", ":"} -> consume_chain_after_operators(s)
      [] starts_with(s, <<"<", "%">>) -> Tok(2, "BStart")
      [] starts_with(s, <<">", ">">>) -> Tok(2, "LookAhead")
      [] starts_with(s, <<"<", "<">>) -> Tok(2, "LookBehind")
      [] OTHER -> consume_chain_after_operators(s)

\* consume_chain!: the first rule that applies gives the token and its length;
\* the two-byte operators come before every one-byte rule
consume_chain(s) ==
    CASE starts_with(s, <<"<", "%">>) -> Tok(2, "BStart")
      [] starts_with(s, <<"%", ">">>) -> Tok(2, "BEnd")
      [] starts_with(s, <<">", ">">>) -> Tok(2, "LookAhead")
      [] starts_with(s, <<"<", "<">>) -> Tok(2, "LookBehind")
      [] starts_with(s, <<":", ":">>) -> Tok(2, "Backref")
      [] OTHER -> consume_chain_after_operators(s)

\* Span::new(start, end) paired with the token
Spanned(t, start, end) == [token |-> t.token, msg |-> t.msg, start |-> start, end |-> end]

(***************************************************************************)
(* The source texts given to tokenize: every concatenation of at most      *)
(* MaxLen pieces of one of the alphabets below.  A piece is a character or *)
(* a short run of characters, so that the longer forms of foreign syntax   *)
(* are reached within the bound.                                           *)
(***************************************************************************)
Alphabets ==
    {{<<" ">>, <<"\n">>, <<"#">>, <<"a">>, <<"%">>, <<">">>},
     {<<"<">>, <<"%">>, <<":">>, <<">">>, <<" ">>, <<"a">>},
     {<<"'">>, <<"\"">>, <<"\\">>, <<"a">>, <<" ">>, <<"U+E9">>},
     {<<"^">>, <<"$">>, <<"(">>, <<"(", "?">>, <<"\\">>, <<" ">>},
     {<<"(", "?">>, <<"<">>, <<"P">>, <<"=">>, <<">">>, <<"a">>},
     {<<"(", "?">>, <<"P", "=">>, <<"a">>, <<")">>, <<"!">>, <<"<">>},
     {<<"(", "?">>, <<"'">>, <<"#">>, <<"-">>, <<"a">>, <<")">>},
     {<<"(", "?">>, <<":">>, <<"|">>, <<"(">>, <<"&">>, <<"\n">>},
     {<<"\\">>, <<"u">>, <<"x">>, <<"{">>, <<"}">>, <<"f", "f">>},
     {<<"\\">>, <<"k">>, <<"p">>, <<"{">>, <<"^">>, <<"}">>},
     {<<"\\">>, <<"g">>, <<"-">>, <<"0">>, <<"'">>, <<"<">>},
     {<<"\\">>, <<"P">>, <<"{">>, <<"^">>, <<"}">>, <<"+">>},
     {<<"U", "+">>, <<"1">>, <<"f">>, <<"_">>, <<"U+663">>, <<"U+20AC">>},
     {<<"*">>, <<"?">>, <<"|">>, <<")">>, <<"{">>, <<"}">>},
     {<<",">>, <<"!">>, <<"[">>, <<"-">>, <<"]">>, <<".">>},
     {<<";">>, <<"=">>, <<"+">>, <<"@">>, <<"\t">>, <<"/">>}}

RECURSIVE Concat(_)
\* the pieces of f, in order, as one text
Concat(f) == IF Len(f) = 0 THEN <<>> ELSE Head(f) \o Concat(Tail(f))

(***************************************************************************)
(* C6: the spans tokenize returns are in-bounds, non-empty, strictly       *)
(* increasing and non-overlapping half-open ranges [start, start +         *)
(* consumed), and every source byte before the first token, between two    *)
(* consecutive tokens or after the last token is whitespace or part of a   *)
(* # line comment.                                                         *)
(***************************************************************************)
\* every character of g is whitespace or lies in a comment that began in g
C6_IsTrivia(g) ==
    \A i \in 1..Len(g) :
        \/ g[i] \in Whitespace
        \/ \E j \in 1..i : g[j] = "#" /\ \A k \in j..(i - 1) : g[k] /= "\n"

C6_SpansCoverSource ==
    /\ \A i \in 1..Len(result) :
           /\ 0 <= result[i].start
           /\ result[i].start < result[i].end
           /\ result[i].end <= ByteLen(src)
    /\ \A i \in 1..(Len(result) - 1) : result[i].end <= result[i + 1].start
    /\ result /= <<>> => C6_IsTrivia(Slice(src, 0, result[1].start))
    /\ \A i \in 1..(Len(result) - 1) :
           C6_IsTrivia(Slice(src, result[i].end, result[i + 1].start))
    \* the span ends where the rest of the input begins
    /\ (pc = "loop" /\ result /= <<>>) =>
           /\ result[Len(result)].end = offset
           /\ input = SliceFrom(src, offset)
    /\ (pc = "done" /\ result /= <<>>) =>
           C6_IsTrivia(Slice(src, result[Len(result)].end, ByteLen(src)))
    /\ (pc = "done" /\ result = <<>>) => C6_IsTrivia(src)

\* two tokens with a comment between them, and whitespace after the last
C6_Witness ==
    /\ pc = "done"
    /\ Len(result) = 2
    /\ result[1].end < result[2].start
    /\ "#" \in {src[i] : i \in 1..Len(src)}
    /\ result[2].end < ByteLen(src)

(***************************************************************************)
(* C10: whenever the unconsumed input (whitespace and comments skipped)    *)
(* begins with ^, $, (? or a backslash, tokenize emits an ErrorMsg token   *)
(* with a hint of the catalog for it, never OpenParen and never the        *)
(* unclassified Error; an input beginning with ( not followed by ? gives   *)
(* OpenParen.  A token's start is where the unconsumed input began.        *)
(***************************************************************************)
\* the unconsumed input token i was cut from
C10_At(i) == SliceFrom(src, result[i].start)

C10_Hinted(i) == result[i].token = "ErrorMsg" /\ result[i].msg \in ParseErrorMsg

C10_OpenParen(i) ==
    (Head(C10_At(i)) = "(" /\ ~starts_with(C10_At(i), <<"(", "?">>)) =>
        result[i].token = "OpenParen"

\* the claim as made: every backslash is hinted
C10_ForeignSyntaxHinted ==
    \A i \in 1..Len(result) :
        /\ (\/ Head(C10_At(i)) \in {"^", "$", "\\"}
            \/ starts_with(C10_At(i), <<"(", "?">>)) => C10_Hinted(i)
        /\ C10_OpenParen(i)

\* amended: a backslash is hinted when a character follows it; the backslash
\* that ends the input is the unclassified Error token
C10_ForeignSyntaxHintedUnlessLast ==
    \A i \in 1..Len(result) :
        /\ (\/ Head(C10_At(i)) \in {"^", "$"}
            \/ Head(C10_At(i)) = "\\" /\ Len(C10_At(i)) >= 2
            \/ starts_with(C10_At(i), <<"(", "?">>)) => C10_Hinted(i)
        /\ C10_At(i) = <<"\\">> =>
              result[i].token = "Error" /\ result[i].end = result[i].start + 1
        /\ C10_OpenParen(i)

\* a plain (, a (? with nothing known after it, a ^ and the backslash that
\* ends the input were tokenized
C10_Witness ==
    /\ pc = "done"
    /\ Len(result) = 4
    /\ result[1].token = "OpenParen"
    /\ result[2].msg = "GroupOther"
    /\ result[3].msg = "Caret"
    /\ result[4].token = "Error"
    /\ src[Len(src)] = "\\"

(***************************************************************************)
(* Result<T, E>                                                            *)
(***************************************************************************)
Ok(x) == [ok |-> TRUE, val |-> x]

Err(e) == [ok |-> FALSE, err |-> e]

(***************************************************************************)
(* u32.  A value is the pair <<high half, low half>> of its two 16-bit     *)
(* halves, so that every value up to u32::MAX can be written.              *)
(***************************************************************************)
Half == 2^16

\* the u32 of a small natural number
U32(n) == <<n \div Half, n % Half>>

U32_MAX == <<Half - 1, Half - 1>>

\* a > b on u32
Gt32(a, b) == a[1] > b[1] \/ (a[1] = b[1] /\ a[2] > b[2])

\* Option::unwrap_or
unwrap_or(o, d) == IF o.some THEN o.val ELSE d

(***************************************************************************)
(* RepetitionKind and its constructors                                     *)
(***************************************************************************)
RepetitionKind(lower, upper) == [lower_bound |-> lower, upper_bound |-> upper]

zero_inf == RepetitionKind(U32(0), None)

one_inf == RepetitionKind(U32(1), None)

zero_one == RepetitionKind(U32(0), Some(U32(1)))

fixed(n) == RepetitionKind(n, Some(n))

try_from_default_zero(lower_bound, upper_bound) ==
    IF Gt32(lower_bound, unwrap_or(upper_bound, U32(0)))
    THEN Err("NotAscending")
    ELSE Ok(RepetitionKind(lower_bound, upper_bound))

\* impl TryFrom<(u32, Option<u32>)> for RepetitionKind
try_from(lower_bound, upper_bound) ==
    IF Gt32(lower_bound, unwrap_or(upper_bound, U32_MAX))
    THEN Err("NotAscending")
    ELSE Ok(RepetitionKind(lower_bound, upper_bound))

(***************************************************************************)
(* Rulex, the AST                                                          *)
(***************************************************************************)
Literal(s) == [tag |-> "Literal", s |-> s]

\* a char class: negated or not, and the groups it was built from, in order
CharClass(negative, groups) == [tag |-> "CharClass", negative |-> negative, groups |-> groups]

\* g.needs_parens is what Group::needs_parens_before_repetition answers for g
Group(capture, parts, needs_parens) ==
    [tag |-> "Group", capture |-> capture, parts |-> parts, needs_parens |-> needs_parens]

Alternation(rules) == [tag |-> "Alternation", rules |-> rules]

Repetition(rule, kind, greedy) ==
    [tag |-> "Repetition", rule |-> rule, kind |-> kind, greedy |-> greedy]

Boundary(b) == [tag |-> "Boundary", b |-> b]

\* CharClass::default
CharClassDefault == CharClass(FALSE, <<>>)

\* CharClass::is_negated
is_negated(c) == c.negative

\* CharClass::add_all: the groups of c are added after those of cc
add_all(cc, c) == CharClass(cc.negative, cc.groups \o c.groups)

\* CharClass::negate
negate_class(c) == CharClass(~c.negative, c.groups)

RECURSIVE add_each(_, _)
\* for rule in rules { cc.add_all(c) }
add_each(cc, rules) ==
    IF rules = <<>> THEN cc ELSE add_each(add_all(cc, Head(rules)), Tail(rules))

new_rulex_any_class(rules) ==
    IF \A i \in 1..Len(rules) : rules[i].tag = "CharClass"
    THEN add_each(CharClassDefault, rules)
    ELSE Alternation(rules)

new_rulex_some_class(rules) ==
    IF rules /= <<>> /\ \A i \in 1..Len(rules) : rules[i].tag = "CharClass" /\ ~is_negated(rules[i])
    THEN add_each(CharClassDefault, rules)
    ELSE Alternation(rules)

\* Alternation::new_rulex
new_rulex(rules) ==
    IF \A i \in 1..Len(rules) : rules[i].tag = "CharClass" /\ ~is_negated(rules[i])
    THEN add_each(CharClassDefault, rules)
    ELSE Alternation(rules)

negate_keeps_not_word(rule) ==
    CASE rule.tag = "CharClass" -> Some(negate_class(rule))
      [] rule.tag = "Boundary" ->
            (CASE rule.b = "Word" -> Some(Boundary("NotWord"))
               [] rule.b = "NotWord" -> Some(Boundary("NotWord"))
               [] rule.b \in {"Start", "End"} -> None)
      [] OTHER -> None

\* Rulex::negate
negate(rule) ==
    CASE rule.tag = "CharClass" -> Some(negate_class(rule))
      [] rule.tag = "Boundary" ->
            (CASE rule.b = "Word" -> Some(Boundary("NotWord"))
               [] rule.b = "NotWord" -> Some(Boundary("Word"))
               [] rule.b \in {"Start", "End"} -> None)
      [] OTHER -> None

NoCall == [op |-> "none"]

TokenizeInit ==
    /\ \E A \in Alphabets, n \in 0..MaxLen :
           \E f \in [1..n -> A] : src = Concat(f)
    /\ input = src
    /\ offset = 0
    /\ result = <<>>
    /\ pc = "loop"
    /\ call = NoCall

TokenizeStepKeepsInput ==
    /\ pc = "loop"
    /\ \E rest \in {skip_trivia(input)} :
           /\ rest /= <<>>
           /\ \E start \in {offset + (ByteLen(input) - ByteLen(rest))},
                 t \in {consume_chain(rest)} :
                  /\ offset' = start + t.len
                  /\ input' = rest
                  /\ result' = Append(result, Spanned(t, start, start + t.len))
    /\ UNCHANGED <<src, pc, call>>

\* one iteration of the loop that ends in result.push
TokenizeStep ==
    /\ pc = "loop"
    /\ \E rest \in {skip_trivia(input)} :
           /\ rest /= <<>>
           /\ \E start \in {offset + (ByteLen(input) - ByteLen(rest))},
                 t \in {consume_chain(rest)} :
                  /\ offset' = start + t.len
                  /\ input' = SliceFrom(rest, t.len)
                  /\ result' = Append(result, Spanned(t, start, start + t.len))
    /\ UNCHANGED <<src, pc, call>>

\* the iteration that finds no character left and breaks
TokenizeBreak ==
    /\ pc = "loop"
    /\ \E rest \in {skip_trivia(input)} :
           /\ rest = <<>>
           /\ offset' = offset + (ByteLen(input) - ByteLen(rest))
           /\ input' = rest
    /\ pc' = "done"
    /\ UNCHANGED <<src, result, call>>

Next == TokenizeStep \/ TokenizeBreak

Spec == TokenizeInit /\ [][Next]_vars

(***************************************************************************)
(* Code generation.  comp takes the text already in the buffer and gives   *)
(* the CompileResult together with the buffer as the call leaves it.       *)
(***************************************************************************)
RegexFlavor == {"Pcre", "JavaScript", "Ruby", "Python", "Java", "DotNet", "Rust"}

Span(start, end) == [start |-> start, end |-> end]

CompOk(buf) == [ok |-> TRUE, buf |-> buf]

CompErr(buf, err) == [ok |-> FALSE, buf |-> buf, err |-> err]

\* CompileErrorKind::Unsupported(feature, flavor).at(span)
Unsupported(feature, flavor, span) ==
    [kind |-> "Unsupported", feature |-> feature, flavor |-> flavor, span |-> span]

\* n / 10 and n % 10 on u32
DivMod10(n) ==
    LET low == (n[1] % 10) * Half + n[2]
    IN  [quot |-> <<n[1] \div 10, low \div 10>>, rem |-> low % 10]

Digit == <<"0", "1", "2", "3", "4", "5", "6", "7", "8", "9">>

RECURSIVE Display(_)
\* the decimal digits of a u32, as format!("{n}") writes them
Display(n) ==
    LET d == DivMod10(n)
    IN  IF d.quot = U32(0) THEN <<Digit[d.rem + 1]>>
        ELSE Display(d.quot) \o <<Digit[d.rem + 1]>>

\* the characters a literal must escape
Metachars == {"\\", "^", "$", ".", "|", "?", "*", "+", "(", ")", "[", "]", "{", "}"}

RECURSIVE Escaped(_)
Escaped(s) ==
    IF s = <<>> THEN <<>>
    ELSE (IF Head(s) \in Metachars THEN <<"\\", Head(s)>> ELSE <<Head(s)>>)
         \o Escaped(Tail(s))

\* the text of a literal with its metacharacters escaped
comp_literal(s, buf) == CompOk(buf \o Escaped(s))

\* a char class as [...] or [^...]
comp_char_class(c, buf) ==
    CompOk(buf \o <<"[">> \o (IF c.negative THEN <<"^">> ELSE <<>>) \o c.groups \o <<"]">>)

comp_boundary(b, buf) ==
    CompOk(buf \o (CASE b = "Start" -> <<"^">>
                     [] b = "End" -> <<"$">>
                     [] b = "Word" -> <<"\\", "b">>
                     [] b = "NotWord" -> <<"\\", "B">>))

\* Rulex::needs_parens_before_repetition
needs_parens_before_repetition(rule) ==
    CASE rule.tag \in {"Literal", "Alternation"} -> TRUE
      [] rule.tag = "Group" -> rule.needs_parens
      [] rule.tag = "CharClass" -> FALSE
      [] rule.tag = "Repetition" -> FALSE
      [] rule.tag = "Boundary" -> FALSE

quantifier_braces_first(kind) ==
    LET lower_bound == kind.lower_bound
        upper == kind.upper_bound
    IN  IF ~upper.some THEN <<"{">> \o Display(lower_bound) \o <<",", "}">>
        ELSE IF lower_bound = upper.val THEN <<"{">> \o Display(lower_bound) \o <<"}">>
        ELSE IF lower_bound = U32(0) /\ upper = Some(U32(1)) THEN <<"?">>
        ELSE IF lower_bound = U32(0) THEN <<"{", ",">> \o Display(upper.val) \o <<"}">>
        ELSE <<"{">> \o Display(lower_bound) \o <<",">> \o Display(upper.val) \o <<"}">>

\* match self.kind { ... } of Repetition::comp: the first arm that matches
quantifier(kind) ==
    LET lower_bound == kind.lower_bound
        upper == kind.upper_bound
    IN  IF lower_bound = U32(0) /\ upper = Some(U32(1)) THEN <<"?">>
        ELSE IF lower_bound = U32(0) /\ upper = None THEN <<"*">>
        ELSE IF lower_bound = U32(1) /\ upper = None THEN <<"+">>
        ELSE IF upper = None THEN <<"{">> \o Display(lower_bound) \o <<",", "}">>
        ELSE IF lower_bound = upper.val THEN <<"{">> \o Display(lower_bound) \o <<"}">>
        ELSE IF lower_bound = U32(0) THEN <<"{", ",">> \o Display(upper.val) \o <<"}">>
        ELSE <<"{">> \o Display(lower_bound) \o <<",">> \o Display(upper.val) \o <<"}">>

\* if let Greedy::No = self.greedy { buf.push('?') }
lazy_mark(greedy) == IF greedy = "No" THEN <<"?">> ELSE <<>>

\* the char class that is the grapheme X: it compiles as Grapheme does
GraphemeClass(span) == [tag |-> "CharClass", negative |-> FALSE, span |-> span]

\* whether a char class is the grapheme class
is_grapheme(rule) == "span" \in DOMAIN rule

comp_grapheme_push_first(g, flavor, buf) ==
    IF flavor = "JavaScript"
    THEN CompErr(buf \o <<"\\", "X">>, Unsupported("Grapheme", flavor, g.span))
    ELSE CompOk(buf \o <<"\\", "X">>)

\* impl Compile for Grapheme
comp_grapheme(g, flavor, buf) ==
    IF flavor = "JavaScript"
    THEN CompErr(buf, Unsupported("Grapheme", flavor, g.span))
    ELSE CompOk(buf \o <<"\\", "X">>)

RECURSIVE comp(_, _, _)
RECURSIVE comp_each(_, _, _, _)
\* for rule in rules { rule.comp(..)?; buf.push_str(sep) }
comp_each(rules, sep, flavor, buf) ==
    IF rules = <<>> THEN CompOk(buf)
    ELSE LET r == comp(Head(rules), flavor, buf)
         IN  IF ~r.ok THEN r ELSE comp_each(Tail(rules), sep, flavor, r.buf \o sep)

\* Parens(&rule).comp: the rule inside a non-capturing group
comp_parens(rule, flavor, buf) ==
    LET r == comp(rule, flavor, buf \o <<"(", "?", ":">>)
    IN  IF ~r.ok THEN r ELSE CompOk(r.buf \o <<")">>)

\* a group: (...) when capturing, (?:...) when not
comp_group(g, flavor, buf) ==
    LET r == comp_each(g.parts, <<>>, flavor,
                       buf \o (IF g.capture THEN <<"(">> ELSE <<"(", "?", ":">>))
    IN  IF ~r.ok THEN r ELSE CompOk(r.buf \o <<")">>)

\* the emitter that leaves the last | in the buffer
comp_alternation_no_pop(a, flavor, buf) == comp_each(a.rules, <<"|">>, flavor, buf)

\* impl Compile for Alternation
comp_alternation(a, flavor, buf) ==
    LET r == comp_each(a.rules, <<"|">>, flavor, buf)
    IN  IF ~r.ok THEN r
        ELSE IF a.rules /= <<>> THEN CompOk(Take(r.buf, Len(r.buf) - 1))
        ELSE r

\* impl Compile for Repetition
comp_repetition(rep, flavor, buf) ==
    LET r == IF needs_parens_before_repetition(rep.rule)
             THEN comp_parens(rep.rule, flavor, buf)
             ELSE comp(rep.rule, flavor, buf)
    IN  IF ~r.ok THEN r
        ELSE CompOk(r.buf \o quantifier(rep.kind) \o lazy_mark(rep.greedy))

\* impl Compile for Rulex
comp(rule, flavor, buf) ==
    CASE rule.tag = "Literal" -> comp_literal(rule.s, buf)
      [] rule.tag = "CharClass" ->
            IF is_grapheme(rule) THEN comp_grapheme(rule, flavor, buf)
            ELSE comp_char_class(rule, buf)
      [] rule.tag = "Group" -> comp_group(rule, flavor, buf)
      [] rule.tag = "Alternation" -> comp_alternation(rule, flavor, buf)
      [] rule.tag = "Repetition" -> comp_repetition(rule, flavor, buf)
      [] rule.tag = "Boundary" -> comp_boundary(rule.b, buf)

(***************************************************************************)
(* The diagnostic engine                                                   *)
(***************************************************************************)
\* Span::empty
SpanEmpty == Span(0, 0)

\* Span::range: None for the empty span
range(span) == IF span.end = 0 THEN None ELSE Some(span)

ParseError(kind, span) == [kind |-> kind, span |-> span]

Kind(tag) == [tag |-> tag]

InvalidEscapeInStringAt(k) == [tag |-> "InvalidEscapeInStringAt", offset |-> k]

Multiple(errors) == [tag |-> "Multiple", errors |-> errors]

Returned(v) == [panic |-> FALSE, val |-> v]

Panicked == [panic |-> TRUE]

\* a - b on usize: with overflow checks (a debug build) an underflow panics,
\* without them (a release build) it wraps
usize_sub(a, b, overflow_checks) ==
    IF a >= b THEN Returned(a - b)
    ELSE IF overflow_checks THEN Panicked
    ELSE Returned(a - b + 2^UsizeBits)

narrow_escape_span_no_step_back(span_start, at, overflow_checks) ==
    Returned(Span(span_start + at, span_start + at + 1))

\* span = Span::new(span_start + offset - 1, span_start + offset + 1)
narrow_escape_span(span_start, at, overflow_checks) ==
    LET s == usize_sub(span_start + at, 1, overflow_checks)
    IN  IF s.panic THEN Panicked
        ELSE Returned(Span(s.val, span_start + at + 1))

\* the arms of `let help = match error.kind` that give a fixed text (written
\* here without the backquotes around the code in it)
StaticHelp ==
    [k \in {"Dot", "CharClassEmpty", "KeywordAfterLet", "UnallowedDoubleNot",
            "LetBindingExists", "QuestionMarkAfterRepetition", "RecursionLimit"} |->
        CASE k = "Dot" -> "The dot is deprecated. Use Codepoint to match any code point, or ![n] to exclude line breaks"
          [] k = "CharClassEmpty" -> "You can use ![s !s] to match nothing, and C to match anything"
          [] k = "QuestionMarkAfterRepetition" -> "If you meant to make the repetition lazy, append the lazy keyword instead.\nIf this is intentional, consider adding parentheses around the inner repetition."
          [] k = "KeywordAfterLet" -> "Use a different variable name"
          [] k = "UnallowedDoubleNot" -> "Remove 2 exclamation marks"
          [] k = "LetBindingExists" -> "Use a different name"
          [] k = "RecursionLimit" -> "Try a less nested expression. It helps to refactor it using variables:\nhttps://pomsky-lang.org/docs/language-tour/variables/"]

Diagnostic(severity, kind, source_code, help, span) ==
    [severity |-> severity, code |-> None, msg |-> kind,
     source_code |-> Some(source_code), help |-> help, span |-> span]

(***************************************************************************)
(* The help texts.  A text made by format! is kept as the format string    *)
(* and its arguments; the format strings are written without the           *)
(* backquotes around the code in them.                                     *)
(***************************************************************************)
Format(fmt, args) == [fmt |-> fmt, args |-> args]

RECURSIVE is_char_boundary(_, _)
\* str::is_char_boundary
is_char_boundary(s, n) ==
    IF n = 0 THEN TRUE
    ELSE IF s = <<>> \/ len_utf8(Head(s)) > n THEN FALSE
    ELSE is_char_boundary(Tail(s), n - len_utf8(Head(s)))

\* &s[a..b], which panics unless a <= b and both are character boundaries of s
slice_checked(s, a, b) ==
    IF a <= b /\ is_char_boundary(s, a) /\ is_char_boundary(s, b)
    THEN Returned(Slice(s, a, b))
    ELSE Panicked

\* &s[n..]
slice_from_checked(s, n) == slice_checked(s, n, ByteLen(s))

RECURSIVE trim_start_matches_str(_, _)
\* str::trim_start_matches with a string pattern: the prefix is removed as
\* often as it repeats
trim_start_matches_str(s, lit) ==
    IF lit /= <<>> /\ starts_with(s, lit)
    THEN trim_start_matches_str(Drop(s, Len(lit)), lit)
    ELSE s

\* str::trim_start_matches with a set of characters
trim_start_matches(s, S) == Drop(s, PrefixIn(S, s))

RECURSIVE SuffixIn(_, _)
\* the number of trailing characters of s that lie in the set S
SuffixIn(S, s) ==
    IF s = <<>> \/ s[Len(s)] \notin S THEN 0 ELSE 1 + SuffixIn(S, Take(s, Len(s) - 1))

\* str::trim_end_matches with a set of characters
trim_end_matches(s, S) == Take(s, Len(s) - SuffixIn(S, s))

\* str::trim_matches with a set of characters
trim_matches(s, S) == trim_end_matches(trim_start_matches(s, S), S)

\* str::trim
trim(s) == trim_matches(s, Whitespace)

\* str::contains for a character
contains(s, c) == \E i \in 1..Len(s) : s[i] = c

\* str::replace of every character of S by the character c
replace(s, S, c) == [i \in 1..Len(s) |-> IF s[i] \in S THEN c ELSE s[i]]

\* the help of RangeIsNotIncreasing and CharClass(DescendingRange): the two
\* sides of the dash, swapped; unwrap panics when the slice has no dash
switch_help(slice, fmt) ==
    LET dash_pos == find(slice, {"-"})
    IN  IF ~dash_pos.some THEN Panicked
        ELSE LET part1 == Slice(slice, 0, dash_pos.val)
                 part2 == trim_start_matches(SliceFrom(slice, dash_pos.val), {"-"})
             IN  Returned(Some(Format(fmt, <<trim(part2), trim(part1)>>)))

get_named_capture_help(str) ==
    LET name == trim_matches(
                    trim_start_matches(trim_start_matches_str(str, <<"(", "?">>), {"P"}),
                    {"<", ">", "'"})
    IN  IF contains(name, "-")
        THEN Some("Balancing groups are not supported")
        ELSE Some(Format("Named capturing groups use the :name(...) syntax. Try :{name}(...) instead",
                         <<name>>))

get_pcre_backreference_help(str) ==
    LET name == trim_end_matches(trim_start_matches_str(str, <<"(", "?", "P", "=">>), {")"})
    IN  Some(Format("Backreferences use the ::name syntax. Try ::{name} instead", <<name>>))

\* the arms of get_backslash_help that give a fixed text
BackslashFixedHelp ==
    [c \in {"b", "B", "A", "z", "Z", "N", "X", "R", "D", "W", "S", "V", "H", "G", "0"} |->
        CASE c = "b" -> "Replace \\b with % to match a word boundary"
          [] c = "B" -> "Replace \\B with !% to match a place without a word boundary"
          [] c = "A" -> "Replace \\A with Start to match the start of the string"
          [] c = "z" -> "Replace \\z with End to match the end of the string"
          [] c = "Z" -> "\\Z is not supported. Use End to match the end of the string.\nNote, however, that End doesn't match the position before the final newline."
          [] c = "N" -> "Replace \\N with ![n]"
          [] c = "X" -> "Replace \\X with Grapheme"
          [] c = "R" -> "Replace \\R with ([r] [n] | [v])"
          [] c = "D" -> "Replace \\D with [!d]"
          [] c = "W" -> "Replace \\W with [!w]"
          [] c = "S" -> "Replace \\S with [!s]"
          [] c = "V" -> "Replace \\V with ![v]"
          [] c = "H" -> "Replace \\H with ![h]"
          [] c = "G" -> "Match attempt anchors are not supported"
          [] c = "0" -> "Replace \\0 with U+00"]

get_backslash_help(str) ==
    IF ~starts_with(str, <<"\\">>) THEN Panicked
    ELSE LET rest == SliceFrom(str, 1)
         IN  IF rest = <<>> THEN Returned(None)
             ELSE LET c == Head(rest)
                  IN  Returned(
                        CASE c \in DOMAIN BackslashFixedHelp -> Some(BackslashFixedHelp[c])
                          [] c \in {"a", "e", "f", "n", "r", "t", "h", "v", "d", "w", "s"} ->
                                Some(Format("Replace \\{c} with [{c}]", <<c>>))
                          [] c \in {"1", "2", "3", "4", "5", "6", "7"} ->
                                Some(Format("If this is a backreference, replace it with ::{c}.\nIf this is an octal escape, replace it with U+0{c}.", <<c>>))
                          [] c \in {"8", "9"} -> Some(Format("Replace \\{c} with ::{c}", <<c>>))
                          [] OTHER -> None)

\* get_backslash_help_u4 and get_backslash_help_x2, which have the same body
get_backslash_help_hex(str) ==
    LET hex == slice_from_checked(str, 2)
    IN  IF hex.panic THEN Panicked
        ELSE Returned(Some(Format("Try U+{hex} instead", <<hex.val>>)))

get_backslash_help_unicode(str) ==
    LET rest == slice_from_checked(str, 2)
    IN  IF rest.panic THEN Panicked
        ELSE Returned(Some(Format("Try U+{hex} instead",
                                  <<trim_matches(rest.val, {"{", "}"})>>)))

get_backslash_gk_help(str) ==
    LET rest == slice_from_checked(str, 2)
    IN  IF rest.panic THEN Panicked
        ELSE LET name == trim_matches(rest.val, {"{", "}", "<", ">", "'"})
             IN  IF name = <<"0">>
                 THEN Returned(Some("Recursion is currently not supported"))
                 ELSE Returned(Some(Format("Replace {str} with ::{name}", <<str, name>>)))

get_backslash_property_help_by_letter(str) ==
    LET rest == slice_from_checked(str, 2)
    IN  IF rest.panic THEN Panicked
        ELSE LET is_negative == starts_with(str, <<"\\", "P">>)
                                    \/ starts_with(str, <<"\\", "p", "{", "^">>)
                 name == replace(trim_matches(rest.val, {"{", "}", "^"}), {"+", "-"}, "_")
             IN  IF is_negative
                 THEN Returned(Some(Format("Replace {str} with [!{name}]", <<str, name>>)))
                 ELSE Returned(Some(Format("Replace {str} with [{name}]", <<str, name>>)))

\* \pL, \PL, \p{Letter}, \P{Letter}, \p{^Letter}, \P{^Letter}
get_backslash_property_help(str) ==
    LET rest == slice_from_checked(str, 2)
    IN  IF rest.panic THEN Panicked
        ELSE LET is_negative ==
                     \/ /\ starts_with(str, <<"\\", "P">>)
                        /\ ~starts_with(str, <<"\\", "P", "{", "^">>)
                     \/ starts_with(str, <<"\\", "p", "{", "^">>)
                 name == replace(trim_matches(rest.val, {"{", "}", "^"}), {"+", "-"}, "_")
             IN  IF is_negative
                 THEN Returned(Some(Format("Replace {str} with [!{name}]", <<str, name>>)))
                 ELSE Returned(Some(Format("Replace {str} with [{name}]", <<str, name>>)))

\* the arms of get_parse_error_msg_help that give a fixed text
MsgFixedHelp ==
    [m \in {"Caret", "CaretInGroup", "Dollar", "GroupNonCapturing", "GroupLookahead",
            "GroupLookaheadNeg", "GroupLookbehind", "GroupLookbehindNeg",
            "GroupComment"} |->
        CASE m = "Caret" -> "Use Start to match the start of the string"
          [] m = "CaretInGroup" -> "Use ![...] to negate a character class"
          [] m = "Dollar" -> "Use End to match the end of the string"
          [] m = "GroupNonCapturing" -> "Non-capturing groups are just parentheses: (...). Capturing groups use the :(...) syntax."
          [] m = "GroupLookahead" -> "Lookahead uses the >> syntax. For example, >> 'bob' matches if the position is followed by bob."
          [] m = "GroupLookaheadNeg" -> "Negative lookahead uses the !>> syntax. For example, !>> 'bob' matches if the position is not followed by bob."
          [] m = "GroupLookbehind" -> "Lookbehind uses the << syntax. For example, << 'bob' matches if the position is preceded with bob."
          [] m = "GroupLookbehindNeg" -> "Negative lookbehind uses the !<< syntax. For example, !<< 'bob' matches if the position is not preceded with bob."
          [] m = "GroupComment" -> "Comments start with # and go until the end of the line."]

get_parse_error_msg_help(slice, msg) ==
    CASE msg \in DOMAIN MsgFixedHelp -> Returned(Some(MsgFixedHelp[msg]))
      [] msg = "GroupNamedCapture" -> Returned(get_named_capture_help(slice))
      [] msg = "GroupPcreBackreference" -> Returned(get_pcre_backreference_help(slice))
      [] msg = "Backslash" -> get_backslash_help(slice)
      [] msg \in {"BackslashU4", "BackslashX2"} -> get_backslash_help_hex(slice)
      [] msg = "BackslashUnicode" -> get_backslash_help_unicode(slice)
      [] msg = "BackslashGK" -> get_backslash_gk_help(slice)
      [] msg = "BackslashProperty" -> get_backslash_property_help(slice)
      [] msg \in {"GroupAtomic", "GroupConditional", "GroupBranchReset",
                  "GroupSubroutineCall", "GroupOther", "UnclosedString"} ->
            Returned(None)

\* a build of the crate: with or without overflow checks (debug or release),
\* with or without the feature "suggestions"
Builds == [overflow_checks : BOOLEAN, suggestions : BOOLEAN]

\* ParseErrorKind::LexErrorWithMessage(msg)
LexErrorWithMessage(msg) == [tag |-> "LexErrorWithMessage", msg |-> msg]

\* ParseErrorKind::CharClass(CharClassError::UnknownNamedClass { similar, .. })
UnknownNamedClass(similar) == [tag |-> "UnknownNamedClass", similar |-> similar]

\* let help = match error.kind { ... }: the help, or a panic
parse_error_help(kind, slice, build) ==
    CASE kind.tag = "LexErrorWithMessage" -> get_parse_error_msg_help(slice, kind.msg)
      [] kind.tag = "RangeIsNotIncreasing" ->
            switch_help(slice, "Switch the numbers: {}-{}")
      [] kind.tag = "UnknownNamedClass" /\ build.suggestions /\ kind.similar.some ->
            Returned(Some(Format("Perhaps you meant {similar}", <<kind.similar.val>>)))
      [] kind.tag = "DescendingRange" ->
            switch_help(slice, "Switch the characters: {}-{}")
      [] kind.tag = "TooManyCodePoints"
           /\ (\A i \in DOMAIN trim_matches(slice, {"\"", "'"}) :
                   trim_matches(slice, {"\"", "'"})[i] \in AsciiDigit) ->
            Returned(Some("Try a range expression instead:\nhttps://pomsky-lang.org/docs/language-tour/ranges/"))
      [] kind.tag \in DOMAIN StaticHelp -> Returned(Some(StaticHelp[kind.tag]))
      [] OTHER -> Returned(None)

\* Diagnostic::from_parse_error
from_parse_error(error, source_code, build) ==
    LET rng == unwrap_or(range(error.span), Span(0, ByteLen(source_code)))
        slice == slice_checked(source_code, rng.start, rng.end)
        span == rng
        kind == error.kind
    IN  IF slice.panic THEN Panicked
        ELSE IF kind.tag = "InvalidEscapeInStringAt"
        THEN LET narrowed == narrow_escape_span(span.start, kind.offset, build.overflow_checks)
             IN  IF narrowed.panic THEN Panicked
                 ELSE Returned(Diagnostic("Error", kind, source_code, None, narrowed.val))
        ELSE LET help == parse_error_help(kind, slice.val, build)
             IN  IF help.panic THEN Panicked
                 ELSE Returned(Diagnostic("Error", kind, source_code, help.val, span))

RECURSIVE from_parse_errors(_, _, _)
RECURSIVE flat_map_errors(_, _, _)
\* .flat_map(|err| Diagnostic::from_parse_errors(err, source_code)).collect()
flat_map_errors(errors, source_code, build) ==
    IF errors = <<>> THEN Returned(<<>>)
    ELSE LET first == from_parse_errors(Head(errors), source_code, build)
             rest == flat_map_errors(Tail(errors), source_code, build)
         IN  IF first.panic \/ rest.panic THEN Panicked
             ELSE Returned(first.val \o rest.val)

RECURSIVE map_errors(_, _, _)
\* every error of the list through from_parse_error, nested ones not unfolded
map_errors(errors, source_code, build) ==
    IF errors = <<>> THEN Returned(<<>>)
    ELSE LET first == from_parse_error(Head(errors), source_code, build)
             rest == map_errors(Tail(errors), source_code, build)
         IN  IF first.panic \/ rest.panic THEN Panicked
             ELSE Returned(<<first.val>> \o rest.val)

from_parse_errors_one_level(error, source_code, build) ==
    IF error.kind.tag = "Multiple"
    THEN map_errors(error.kind.errors, source_code, build)
    ELSE LET d == from_parse_error(error, source_code, build)
         IN  IF d.panic THEN Panicked ELSE Returned(<<d.val>>)

\* Diagnostic::from_parse_errors
from_parse_errors(error, source_code, build) ==
    IF error.kind.tag = "Multiple"
    THEN flat_map_errors(error.kind.errors, source_code, build)
    ELSE LET d == from_parse_error(error, source_code, build)
         IN  IF d.panic THEN Panicked ELSE Returned(<<d.val>>)

CompileError(kind, span) == [kind |-> kind, span |-> span]

\* CompileErrorKind::ParseError(kind)
WrappedParseError(kind) == [tag |-> "ParseError", kind |-> kind]

\* CompileErrorKind::UnknownVariable { similar, .. } and
\* CompileErrorKind::UnknownReferenceName { similar, .. }
UnknownName(tag, similar) == [tag |-> tag, similar |-> similar]

\* Warning { kind, span }
Warning(kind, span) == [kind |-> kind, span |-> span]

\* Diagnostic::from_compile_error
from_compile_error(error, source_code, build) ==
    LET span == unwrap_or(range(error.span), Span(0, ByteLen(source_code)))
    IN  CASE error.kind.tag = "ParseError" ->
                from_parse_error(ParseError(error.kind.kind, error.span), source_code, build)
          [] /\ error.kind.tag \in {"UnknownVariable", "UnknownReferenceName"}
             /\ build.suggestions /\ error.kind.similar.some ->
                Returned(Diagnostic("Error", error.kind, source_code,
                                    Some(Format("Perhaps you meant {similar}",
                                                <<error.kind.similar.val>>)),
                                    span))
          [] OTHER -> Returned(Diagnostic("Error", error.kind, source_code, None, span))

\* Diagnostic::from_compile_errors
from_compile_errors(error, source_code, build) ==
    IF error.kind.tag = "ParseError"
    THEN from_parse_errors(ParseError(error.kind.kind, error.span), source_code,
                           build)
    ELSE Returned(<<Diagnostic("Error", error.kind, source_code, None,
                             unwrap_or(range(error.span),
                                       Span(0, ByteLen(source_code))))>>)

\* Diagnostic::from_warning
from_warning_as_error(warning, source_code) ==
    Diagnostic("Error", warning.kind, source_code, None,
               unwrap_or(range(warning.span), Span(0, ByteLen(source_code))))

from_warning(warning, source_code) ==
    Diagnostic("Warning", warning.kind, source_code, None,
               unwrap_or(range(warning.span), Span(0, ByteLen(source_code))))

(***************************************************************************)
(* C14: tokenize terminates: an iteration that emits a token consumes at   *)
(* least one byte and never more than the input that is left, so there are *)
(* at most as many tokens as the input has bytes, and the loop ends        *)
(* exactly when nothing but whitespace and comments is left.               *)
(***************************************************************************)
\* in the loop either nothing but trivia is left, and the loop breaks, or the
\* cascade gives a token of 1 up to all of the bytes that are left
C14_CanStep ==
    pc = "loop" =>
        \E rest \in {skip_trivia(input)} :
            \/ rest = <<>>
            \/ \E t \in {consume_chain(rest)} :
                   /\ t.len >= 1 /\ t.len <= ByteLen(rest)
                   /\ is_char_boundary(rest, t.len)

\* the bytes left are a measure that bounds the tokens
C14_TokensBounded ==
    /\ offset + ByteLen(input) = ByteLen(src)
    /\ Len(result) <= offset

\* an iteration emits one token and shortens the input, or ends the loop
\* with only trivia left and the tokens as they are
C14_Iteration ==
    /\ (pc = "loop" /\ pc' = "loop") =>
           /\ skip_trivia(input) /= <<>>
           /\ ByteLen(input') < ByteLen(input)
           /\ Len(result') = Len(result) + 1
    /\ (pc = "loop" /\ pc' = "done") =>
           /\ skip_trivia(input) = <<>>
           /\ result' = result
    /\ pc = "done" => pc' = "done"

C14_Terminates == [](C14_CanStep /\ C14_TokensBounded) /\ [][C14_Iteration]_vars

\* the loop ended with as many tokens as the input has bytes, three or more
C14_Witness ==
    /\ pc = "done"
    /\ Len(result) = ByteLen(src)
    /\ Len(result) >= 3

\* the source text from the start of the i-th token on
C15_At(i) == SliceFrom(src, result[i].start)

\* the two-byte operators and their tokens
C15_Operators ==
    {<<(<<"<", "%">>), "BStart">>, <<(<<"%", ">">>), "BEnd">>,
     <<(<<">", ">">>), "LookAhead">>, <<(<<"<", "<">>), "LookBehind">>,
     <<(<<":", ":">>), "Backref">>}

C15_StartsOperator(i) == \E o \in C15_Operators : starts_with(C15_At(i), o[1])

\* C15: a token that starts where a two-byte operator starts is the two-byte
\* token of that operator, and a one-byte BWord or Colon token is the % or :
\* at a place where no two-byte operator starts
C15_TwoByteOperatorsFirst ==
    \A i \in 1..Len(result) :
        /\ \A o \in C15_Operators :
              starts_with(C15_At(i), o[1]) =>
                  /\ result[i].token = o[2]
                  /\ result[i].end = result[i].start + 2
        /\ result[i].token \in {"BWord", "Colon"} =>
              /\ ~C15_StartsOperator(i)
              /\ result[i].end = result[i].start + 1
              /\ Head(C15_At(i)) = (IF result[i].token = "BWord" THEN "%" ELSE ":")

\* <%>: the operator <% was taken whole and the > after it stands alone; and
\* in another run %: gave the two one-byte tokens
C15_Witness ==
    /\ pc = "done"
    /\ \/ /\ src = <<"<", "%", ">">>
          /\ Len(result) = 2
          /\ result[1].token = "BStart"
       \/ /\ src = <<"%", ":", ":">>
          /\ Len(result) = 2
          /\ result[1].token = "BWord"
          /\ result[2].token = "Backref"

\* the text after the opening quote of the i-th token
C16_Inner(i) == Tail(C15_At(i))

RECURSIVE C16_Escaped(_, _)
\* the j-th character of s is taken by a backslash escape: the character
\* before it is a backslash that is not itself taken by one
C16_Escaped(s, j) == j > 1 /\ s[j - 1] = "\\" /\ ~C16_Escaped(s, j - 1)

\* the places of s where a string opened by the quote q closes
C16_Closers(s, q) ==
    {j \in 1..Len(s) : s[j] = q /\ (q = "\"" => ~C16_Escaped(s, j))}

C16_First(S) == CHOOSE j \in S : \A k \in S : j <= k

\* C16: a token that starts at a quote is a String through the first closing
\* quote, or, with no closing quote, the UnclosedString error through the end
\* of the input, which no token follows
C16_StringsClosed ==
    \A i \in 1..Len(result) :
        \A q \in {"'", "\""} :
            Head(C15_At(i)) = q =>
                \E closers \in {C16_Closers(C16_Inner(i), q)} :
                    IF closers /= {}
                    THEN /\ result[i].token = "String"
                         /\ result[i].end = result[i].start + 1
                              + ByteLen(Take(C16_Inner(i), C16_First(closers)))
                    ELSE /\ result[i].token = "ErrorMsg"
                         /\ result[i].msg = "UnclosedString"
                         /\ result[i].end = ByteLen(src)
                         /\ i = Len(result)
                         /\ input = <<>>

\* an escaped quote did not close a string, the quote after an escaped
\* backslash did, and an unclosed string was the last token
C16_Witness ==
    /\ pc = "done"
    /\ \/ /\ src = <<"\"", "\\", "\"", "\"">>
          /\ Len(result) = 1 /\ result[1].token = "String" /\ result[1].end = 4
       \/ /\ src = <<"\"", "\\", "\\", "\"">>
          /\ Len(result) = 1 /\ result[1].token = "String" /\ result[1].end = 4
       \/ /\ src = <<"a", "'", "\\", "\"">>
          /\ Len(result) = 2 /\ result[2].msg = "UnclosedString"

(***************************************************************************)
(* The AST constructors, each applied once to an input drawn by Init.      *)
(* call holds the operation, its argument and, once done, its result.      *)
(***************************************************************************)
Call(op, arg) == [op |-> op, arg |-> arg, done |-> FALSE, res |-> "none"]

Return(c, res) == [c EXCEPT !.done = TRUE, !.res = res]

\* the tokenizer is not running
TokenizerIdle ==
    /\ src = <<>>
    /\ input = <<>>
    /\ offset = 0
    /\ result = <<>>
    /\ pc = "idle"

\* u32 values in ascending order: the small ones, the two around the middle
\* bit, and the largest
U32Samples ==
    [i \in 1..(MaxRep + 1) |-> U32(i - 1)] \o <<U32(Half - 1), U32(Half), U32_MAX>>

\* the upper bound of a try_from call: 0 stands for None, j for Some(U32Samples[j])
UpperArg(j) == IF j = 0 THEN None ELSE Some(U32Samples[j])

RulePool ==
    {CharClass(FALSE, <<"a">>), CharClass(FALSE, <<"b", "c">>), CharClass(TRUE, <<"d">>),
     Literal(<<"x">>), Boundary("Word"), Alternation(<<Literal(<<"y">>)>>)}

NegateArgs ==
    RulePool \cup {Boundary(b) : b \in {"Start", "End", "Word", "NotWord"}}
             \cup {Repetition(Boundary("Word"), zero_one, "Yes"),
                   Group(FALSE, <<Boundary("Word")>>, FALSE)}

AstInit ==
    /\ TokenizerIdle
    /\ \/ \E i \in 1..Len(U32Samples), j \in 0..Len(U32Samples) :
              call = Call("try_from", [i |-> i, j |-> j])
       \/ \E n \in 0..MaxRules : \E rules \in [1..n -> RulePool] :
              call = Call("new_rulex", rules)
       \/ \E r \in NegateArgs : call = Call("negate", r)

TryFrom ==
    /\ call.op = "try_from" /\ ~call.done
    /\ call' = Return(call, try_from(U32Samples[call.arg.i], UpperArg(call.arg.j)))
    /\ UNCHANGED <<src, input, offset, result, pc>>

NewRulex ==
    /\ call.op = "new_rulex" /\ ~call.done
    /\ call' = Return(call, new_rulex(call.arg))
    /\ UNCHANGED <<src, input, offset, result, pc>>

\* negate, and negate again on the rule it returned
Negate ==
    /\ call.op = "negate" /\ ~call.done
    /\ LET once == negate(call.arg)
       IN  call' = Return(call, [once |-> once,
                                 twice |-> IF once.some THEN negate(once.val) ELSE None])
    /\ UNCHANGED <<src, input, offset, result, pc>>

NextAst == TryFrom \/ NewRulex \/ Negate

SpecAst == AstInit /\ [][NextAst]_vars

(***************************************************************************)
(* C3: RepetitionKind::try_from((a, Some(b))) is Err(NotAscending) when    *)
(* a > b; for a <= b, and for every a with the upper bound None, it is Ok  *)
(* with exactly the bounds given.                                          *)
(***************************************************************************)
C3_TryFromAscending ==
    (call.op = "try_from" /\ call.done) =>
        LET i == call.arg.i
            j == call.arg.j
        IN  IF j /= 0 /\ i > j
            THEN call.res = Err("NotAscending")
            ELSE /\ call.res.ok
                 /\ call.res.val.lower_bound = U32Samples[i]
                 /\ call.res.val.upper_bound = UpperArg(j)

\* a descending pair was rejected, and u32::MAX with no upper bound accepted
C3_Witness ==
    /\ call.op = "try_from" /\ call.done
    /\ \/ call.arg.j /= 0 /\ call.arg.i > call.arg.j /\ ~call.res.ok
       \/ call.arg.j = 0 /\ U32Samples[call.arg.i] = U32_MAX /\ call.res.ok

(***************************************************************************)
(* C4: new_rulex of a list whose elements are all non-negated char classes *)
(* is one CharClass, the union of the elements added in list order; of a   *)
(* list with any other element it is an Alternation of the same children   *)
(* in the same order.                                                      *)
(***************************************************************************)
RECURSIVE C4_GroupsBefore(_, _)
\* how many groups the first n rules hold together
C4_GroupsBefore(rules, n) ==
    IF n = 0 THEN 0 ELSE C4_GroupsBefore(rules, n - 1) + Len(rules[n].groups)

C4_AllPlainClasses(rules) ==
    \A i \in 1..Len(rules) : rules[i].tag = "CharClass" /\ ~rules[i].negative

C4_AlternationCollapses ==
    (call.op = "new_rulex" /\ call.done) =>
        LET rules == call.arg
            r == call.res
        IN  IF C4_AllPlainClasses(rules)
            THEN /\ r.tag = "CharClass"
                 /\ ~r.negative
                 /\ Len(r.groups) = C4_GroupsBefore(rules, Len(rules))
                 /\ \A i \in 1..Len(rules) : \A k \in 1..Len(rules[i].groups) :
                        r.groups[C4_GroupsBefore(rules, i - 1) + k] = rules[i].groups[k]
            ELSE /\ r.tag = "Alternation"
                 /\ r.rules = rules

\* two or more plain classes were merged
C4_Witness ==
    /\ call.op = "new_rulex" /\ call.done
    /\ Len(call.arg) >= 2
    /\ C4_AllPlainClasses(call.arg)
    /\ call.arg[1] /= call.arg[2]
    /\ call.res.tag = "CharClass"

(***************************************************************************)
(* C13: what new_rulex returns is a CharClass or an Alternation with one   *)
(* or more children, for every list of rules, the empty list included.     *)
(***************************************************************************)
C13_AlternationHasChild ==
    (call.op = "new_rulex" /\ call.done) =>
        \/ call.res.tag = "CharClass"
        \/ call.res.tag = "Alternation" /\ Len(call.res.rules) >= 1

\* the empty list gave the empty character class, no Alternation
C13_Witness ==
    /\ call.op = "new_rulex" /\ call.done
    /\ call.arg = <<>>
    /\ call.res = CharClassDefault

(***************************************************************************)
(* C5: negate maps Boundary Word to Some(NotWord) and NotWord to           *)
(* Some(Word), gives None for Start and End, and negating a Word or        *)
(* NotWord boundary twice gives back the original.                         *)
(***************************************************************************)
C5_BoundaryNegation ==
    (call.op = "negate" /\ call.done /\ call.arg.tag = "Boundary") =>
        /\ call.arg.b = "Word" => call.res.once = Some(Boundary("NotWord"))
        /\ call.arg.b = "NotWord" => call.res.once = Some(Boundary("Word"))
        /\ call.arg.b \in {"Start", "End"} => call.res.once = None
        /\ call.arg.b \in {"Word", "NotWord"} => call.res.twice = Some(call.arg)

C5_Witness ==
    /\ call.op = "negate" /\ call.done
    /\ call.arg = Boundary("NotWord")
    /\ call.res.twice = Some(Boundary("NotWord"))

(***************************************************************************)
(* Code generation, each comp applied once to a node, a flavor and a       *)
(* buffer drawn by Init.                                                   *)
(***************************************************************************)
\* the kinds the constructors can build: lower <= upper, or no upper bound
Kinds ==
    {RepetitionKind(U32Samples[i], None) : i \in 1..Len(U32Samples)}
    \cup UNION {{RepetitionKind(U32Samples[i], Some(U32Samples[j])) :
                    j \in i..Len(U32Samples)} : i \in 1..Len(U32Samples)}

Atoms ==
    {Literal(<<"a">>), Literal(<<"a", "b">>), Literal(<<".">>),
     CharClass(FALSE, <<"a">>), CharClass(TRUE, <<"a", "b">>),
     Boundary("Word"), Boundary("Start")}

Children ==
    Atoms
    \cup {Group(FALSE, <<Literal(<<"a">>)>>, np) : np \in BOOLEAN}
    \cup {Group(TRUE, <<Literal(<<"a">>), Boundary("End")>>, FALSE)}
    \cup {Alternation(<<Literal(<<"a">>), Literal(<<"b">>)>>), Alternation(<<>>)}
    \cup {Repetition(x, k, g) :
            x \in {Literal(<<"a">>), CharClass(FALSE, <<"a">>)},
            k \in {zero_one, zero_inf, one_inf, fixed(U32(2))},
            g \in {"Yes", "No"}}

Buffers == {<<>>, <<"z">>}

GraphemeSpans == {Span(0, 0), Span(0, 8), Span(3, 11)}

\* the children of the alternations compiled: texts (one empty, one a
\* metacharacter), classes, a nested alternation, a repetition, and the
\* grapheme class, which JavaScript refuses, at two spans
AlternationPool ==
    {Literal(<<"a">>), Literal(<<>>), Literal(<<"|">>), CharClass(TRUE, <<"a", "b">>),
     Alternation(<<Literal(<<"a">>), Literal(<<"b">>)>>),
     Repetition(CharClass(FALSE, <<"a">>), zero_inf, "No"),
     GraphemeClass(Span(0, 8)), GraphemeClass(Span(3, 11))}

RECURSIVE RuleLists(_)
\* the lists of exactly n children
RuleLists(n) ==
    IF n = 0 THEN {<<>>}
    ELSE {<<x>> \o l : x \in AlternationPool, l \in RuleLists(n - 1)}

CodegenInit ==
    /\ TokenizerIdle
    /\ \/ \E x \in Children, k \in Kinds, g \in {"Yes", "No"},
             f \in RegexFlavor, b \in Buffers :
              call = Call("Repetition", [node |-> Repetition(x, k, g), flavor |-> f, buf |-> b])
       \/ \E s \in GraphemeSpans, f \in RegexFlavor, b \in Buffers :
              call = Call("Grapheme", [node |-> [span |-> s], flavor |-> f, buf |-> b])
       \/ \E n \in 0..MaxRules, f \in RegexFlavor, b \in Buffers :
              \E rules \in RuleLists(n) :
                  call = Call("Alternation", [node |-> Alternation(rules), flavor |-> f, buf |-> b])

CompRepetition ==
    /\ call.op = "Repetition" /\ ~call.done
    /\ call' = Return(call, comp_repetition(call.arg.node, call.arg.flavor, call.arg.buf))
    /\ UNCHANGED <<src, input, offset, result, pc>>

CompGrapheme ==
    /\ call.op = "Grapheme" /\ ~call.done
    /\ call' = Return(call, comp_grapheme(call.arg.node, call.arg.flavor, call.arg.buf))
    /\ UNCHANGED <<src, input, offset, result, pc>>

CompAlternation ==
    /\ call.op = "Alternation" /\ ~call.done
    /\ call' = Return(call, comp_alternation(call.arg.node, call.arg.flavor, call.arg.buf))
    /\ UNCHANGED <<src, input, offset, result, pc>>

NextCodegen == CompRepetition \/ CompGrapheme \/ CompAlternation

SpecCodegen == CodegenInit /\ [][NextCodegen]_vars

(***************************************************************************)
(* C1: the text Repetition.comp appends after the child depends on (lower, *)
(* upper, greedy) only: {0,1} gives ?, {0,inf} *, {1,inf} +, {n,inf} {n,}, *)
(* {n,n} {n} (also {0} and {1}), {0,m} {,m}, anything else {n,m}; and a    *)
(* lazy repetition has exactly one more ? after the quantifier.            *)
(***************************************************************************)
\* the quantifier the claim names for a kind, its cases made disjoint
C1_Quantifier(kind) ==
    LET n == kind.lower_bound
        up == kind.upper_bound
        zero == U32(0)
        one == U32(1)
    IN  CASE ~up.some /\ n = zero -> <<"*">>
          [] ~up.some /\ n = one -> <<"+">>
          [] ~up.some /\ n \notin {zero, one} -> <<"{">> \o Display(n) \o <<",", "}">>
          [] up.some /\ n = zero /\ up.val = one -> <<"?">>
          [] up.some /\ n = up.val -> <<"{">> \o Display(n) \o <<"}">>
          [] up.some /\ n = zero /\ up.val \notin {zero, one} ->
                <<"{", ",">> \o Display(up.val) \o <<"}">>
          [] up.some /\ n /= zero /\ n /= up.val ->
                <<"{">> \o Display(n) \o <<",">> \o Display(up.val) \o <<"}">>

\* the text of the child as the repetition emits it, with or without parentheses
C1_ChildText(rule, flavor) ==
    {comp(rule, flavor, <<>>).buf, <<"(", "?", ":">> \o comp(rule, flavor, <<>>).buf \o <<")">>}

C1_RepetitionQuantifier ==
    (call.op = "Repetition" /\ call.done) =>
        LET rep == call.arg.node
        IN  /\ call.res.ok
            /\ \E child \in C1_ChildText(rep.rule, call.arg.flavor) :
                   call.res.buf =
                       call.arg.buf \o child \o C1_Quantifier(rep.kind)
                       \o (IF rep.greedy = "No" THEN <<"?">> ELSE <<>>)

\* a lazy bounded repetition with a multi-digit bound was compiled
C1_Witness ==
    /\ call.op = "Repetition" /\ call.done
    /\ call.arg.node.greedy = "No"
    /\ call.arg.node.kind = RepetitionKind(U32(0), Some(U32_MAX))
    /\ call.arg.node.rule = CharClass(FALSE, <<"a">>)
    /\ call.arg.buf = <<>>
    /\ call.res.buf = <<"[", "a", "]", "{", ",", "4", "2", "9", "4", "9", "6", "7",
                        "2", "9", "5", "}", "?">>

(***************************************************************************)
(* C2: for the Pcre flavor a repetition of a single-character literal is   *)
(* the character followed at once by the quantifier, with no group around  *)
(* it: 'a'{2,5} gives a{2,5}, 'a'{0,1} gives a?, 'a'{1,} gives a+.         *)
(***************************************************************************)
C2_SingleCharLiteralUngrouped ==
    (/\ call.op = "Repetition" /\ call.done
     /\ call.arg.node.rule = Literal(<<"a">>)
     /\ call.arg.node.greedy = "Yes"
     /\ call.arg.flavor = "Pcre"
     /\ call.arg.buf = <<>>) =>
        LET kind == call.arg.node.kind
        IN  /\ kind = RepetitionKind(U32(2), Some(U32(5))) =>
                call.res.buf = <<"a", "{", "2", ",", "5", "}">>
            /\ kind = zero_one => call.res.buf = <<"a", "?">>
            /\ kind = one_inf => call.res.buf = <<"a", "+">>

(***************************************************************************)
(* C9: Grapheme.comp returns Err(Unsupported(Grapheme, JavaScript)) with   *)
(* the node's own span when and only when the flavor is JavaScript, and    *)
(* then leaves the buffer as it was; for every other flavor it returns Ok  *)
(* and appends exactly \X.                                                 *)
(***************************************************************************)
C9_GraphemeGating ==
    (call.op = "Grapheme" /\ call.done) =>
        /\ ~call.res.ok <=> call.arg.flavor = "JavaScript"
        /\ ~call.res.ok =>
              /\ call.res.err.kind = "Unsupported"
              /\ call.res.err.feature = "Grapheme"
              /\ call.res.err.flavor = "JavaScript"
              /\ call.res.err.span = call.arg.node.span
              /\ call.res.buf = call.arg.buf
        /\ call.res.ok => call.res.buf = call.arg.buf \o <<"\\", "X">>

\* the JavaScript flavor was refused with text already in the buffer
C9_Witness ==
    /\ call.op = "Grapheme" /\ call.done
    /\ call.arg.flavor = "JavaScript"
    /\ call.arg.buf /= <<>>
    /\ ~call.res.ok
    /\ call.res.err.span = Span(3, 11)

C17_IsCall == call.op = "Alternation" /\ call.done

C17_Rules == call.arg.node.rules

\* the i-th child compiled alone
C17_Child(i) == comp(C17_Rules[i], call.arg.flavor, <<>>)

\* the children that fail
C17_Failing == {i \in 1..Len(C17_Rules) : ~C17_Child(i).ok}

RECURSIVE C17_Joined(_)
\* the outputs of the first n children with one | between neighbours
C17_Joined(n) ==
    IF n = 0 THEN <<>>
    ELSE IF n = 1 THEN C17_Child(1).buf
    ELSE C17_Joined(n - 1) \o <<"|">> \o C17_Child(n).buf

RECURSIVE C17_Each(_)
\* the outputs of the first n children, each followed by a |
C17_Each(n) ==
    IF n = 0 THEN <<>> ELSE C17_Each(n - 1) \o C17_Child(n).buf \o <<"|">>

\* C17: when every child compiles, Alternation.comp appends the children's
\* outputs in order with one | between neighbours, none before the first or
\* after the last, below the text the buffer held (nothing for no children);
\* when a child fails the error is that of the first failing child and the
\* buffer holds nothing of that child or of a later one
C17_AlternationJoined ==
    C17_IsCall =>
        IF C17_Failing = {}
        THEN /\ call.res.ok
             /\ call.res.buf = call.arg.buf \o C17_Joined(Len(C17_Rules))
        ELSE \E first \in C17_Failing :
                /\ \A i \in C17_Failing : first <= i
                /\ ~call.res.ok
                /\ call.res.err = C17_Child(first).err
                /\ call.res.buf = call.arg.buf \o C17_Each(first - 1)

\* three children were joined below text already in the buffer; and in
\* another run the second of three children failed before a third that
\* fails too
C17_Witness ==
    /\ C17_IsCall
    /\ Len(C17_Rules) = 3
    /\ call.arg.buf = <<"z">>
    /\ \/ /\ call.res.ok
          /\ call.res.buf = <<"z", "a", "|", "[", "^", "a", "b", "]", "|", "\\", "X">>
       \/ /\ ~call.res.ok
          /\ C17_Failing = {2, 3}
          /\ call.res.err.span = Span(0, 8)
          /\ call.res.buf = <<"z", "a", "|">>

\* C18: the text of an optional greedy repetition of a greedy repetition of
\* x with bounds k differs from the text of the lazy repetition of x with
\* bounds k
C18_OptionalIsNotLazy ==
    (/\ call.op = "Repetition" /\ call.done
     /\ call.arg.node.kind = zero_one
     /\ call.arg.node.greedy = "Yes"
     /\ call.arg.node.rule.tag = "Repetition"
     /\ call.arg.node.rule.greedy = "Yes") =>
        \E inner \in {call.arg.node.rule} :
            call.res /= comp_repetition(Repetition(inner.rule, inner.kind, "No"),
                                        call.arg.flavor, call.arg.buf)

(***************************************************************************)
(* The diagnostic engine, each function applied once to an error, a source *)
(* text and a build drawn by Init.                                         *)
(***************************************************************************)
\* the source text: ."\q"
DiagSource == <<".", "\"", "\\", "q", "\"">>

\* the errors a parse of DiagSource reports: the dot, the escape in the
\* string at bytes 1..5, and an error with no span
LeafErrors ==
    {ParseError(Kind("Dot"), Span(0, 1)),
     ParseError(InvalidEscapeInStringAt(2), Span(1, 5)),
     ParseError(Kind("LeftoverTokens"), SpanEmpty)}

RECURSIVE ErrorsOfSize(_)
RECURSIVE ErrorListsOfSize(_)
\* the errors of exactly n nodes
ErrorsOfSize(n) ==
    IF n = 1 THEN LeafErrors \cup {ParseError(Multiple(<<>>), SpanEmpty)}
    ELSE {ParseError(Multiple(errs), SpanEmpty) : errs \in ErrorListsOfSize(n - 1)}

\* the non-empty lists of errors of n nodes together
ErrorListsOfSize(n) ==
    UNION {{<<e>> \o rest : e \in ErrorsOfSize(k),
                            rest \in IF k = n THEN {<<>>} ELSE ErrorListsOfSize(n - k)} :
           k \in 1..n}

ParseErrors == UNION {ErrorsOfSize(n) : n \in 1..MaxNodes}

\* any non-empty span inside DiagSource, or the empty one
DiagSpans ==
    {SpanEmpty} \cup {Span(p[1], p[2]) :
                          p \in {q \in (0..Len(DiagSource)) \X (1..Len(DiagSource)) : q[1] < q[2]}}

\* a second source text, with a dash and digits in quotes: '3'-'1'
RangeSource == <<"'", "3", "'", "-", "'", "1", "'">>

DiagSources == {DiagSource, RangeSource}

\* any non-empty span inside the source text s, or the empty one
SpansOf(s) ==
    {SpanEmpty} \cup {Span(p[1], p[2]) :
                          p \in {q \in (0..ByteLen(s)) \X (1..ByteLen(s)) : q[1] < q[2]}}

\* the kinds of a parse error whose help does not read the slice
PlainKinds ==
    {Kind(k) : k \in {"Dot", "CharClassEmpty", "TooManyCodePoints", "KeywordAfterLet",
                      "UnallowedDoubleNot", "LetBindingExists",
                      "QuestionMarkAfterRepetition", "RecursionLimit", "LeftoverTokens"}}
        \cup {UnknownNamedClass(s) : s \in {None, Some(<<"w">>)}}

\* the texts of single tokens with which the lexer reports an error
LexTexts ==
    {<<"^">>, <<"$">>, <<"(", "?", ":">>, <<"(", "?", "=">>, <<"(", "?", "!">>,
     <<"(", "?", ">">>, <<"(", "?", "(">>, <<"(", "?", "|">>, <<"(", "?", "<", "=">>,
     <<"(", "?", "<", "!">>, <<"(", "?", "P", "<", "n", ">">>, <<"(", "?", "<", "a", "-", "b", ">">>,
     <<"(", "?", "'", "n", "'">>, <<"(", "?", "P", "=", "n", ")">>, <<"(", "?", "&">>,
     <<"(", "?", "#", "c", ")">>, <<"(", "?">>, <<"'", "a">>,
     <<"\\", "b">>, <<"\\", "n">>, <<"\\", "3">>, <<"\\", "9">>, <<"\\", "q">>,
     <<"\\", "u", "0", "0", "e", "9">>, <<"\\", "x", "f", "f">>,
     <<"\\", "u", "{", "1", "f", "}">>, <<"\\", "k", "<", "n", ">">>, <<"\\", "g", "0">>,
     <<"\\", "g", "-", "1">>, <<"\\", "p", "L">>, <<"\\", "P", "{", "^", "L", "}">>}

\* the parse errors of a source text, each with a span the parser gives it:
\* the token of a lexer error, the range of a range error, any span (or
\* none) for a kind that does not depend on the text
DiagCases ==
    UNION {{[error |-> ParseError(k, sp), source_code |-> s] :
               k \in PlainKinds, sp \in SpansOf(s)} : s \in DiagSources}
    \cup {[error |-> ParseError(Kind(k), sp), source_code |-> RangeSource] :
             k \in {"RangeIsNotIncreasing", "DescendingRange"},
             sp \in {SpanEmpty, Span(0, 7), Span(1, 6)}}
    \cup UNION {{[error |-> ParseError(LexErrorWithMessage(consume_chain(text).msg), sp),
                  source_code |-> text] : sp \in {SpanEmpty, Span(0, ByteLen(text))}} :
                text \in LexTexts}
    \cup {[error |-> ParseError(LexErrorWithMessage(consume_chain(text).msg),
                                Span(1, 1 + ByteLen(text))),
           source_code |-> <<".">> \o text] : text \in LexTexts}
    \cup {[error |-> ParseError(InvalidEscapeInStringAt(2), sp), source_code |-> DiagSource] :
             sp \in {SpanEmpty, Span(1, 5)}}

\* the kinds of a compile error that is not a parse error
CompileErrorKinds ==
    {UnknownName(k, s) : k \in {"UnknownVariable", "UnknownReferenceName"},
                         s \in {None, Some(<<"x">>)}}
        \cup {Kind("Unsupported")}

WarningKinds == {Kind("Compat"), Kind("Deprecation")}

\* the names of properties: letters, digits and the signs the lexer allows
PropertyNames ==
    UNION {{Concat(f) : f \in [1..n -> {<<"L">>, <<"c">>, <<"-">>, <<"+">>, <<"_">>}]} :
           n \in 1..MaxName}

\* the texts the lexer reports as BackslashProperty: \pL \PL \p{..} \P{..}
\* \p{^..} \P{^..}
PropertyTexts ==
    {text \in UNION {{<<"\\", p, "L">>, <<"\\", p, "1">>}
                         \cup {<<"\\", p, "{">> \o n \o <<"}">> : n \in PropertyNames}
                         \cup {<<"\\", p, "{", "^">> \o n \o <<"}">> : n \in PropertyNames} :
                     p \in {"p", "P"}} :
        consume_chain(text) = TokMsg(ByteLen(text), "BackslashProperty")}

DiagInit ==
    /\ TokenizerIdle
    /\ \/ \E e \in ParseErrors, b \in Builds :
              call = Call("from_parse_errors",
                          [error |-> e, source_code |-> DiagSource, build |-> b])
       \/ \E e \in ParseErrors, b \in Builds :
              call = Call("from_compile_errors",
                          [error |-> CompileError(WrappedParseError(e.kind), e.span),
                           source_code |-> DiagSource, build |-> b])
       \/ \E c \in DiagCases, b \in Builds :
              \/ call = Call("from_parse_error",
                             [error |-> c.error, source_code |-> c.source_code, build |-> b])
              \/ \E op \in {"from_compile_error", "from_compile_errors"} :
                     call = Call(op, [error |-> CompileError(WrappedParseError(c.error.kind),
                                                             c.error.span),
                                      source_code |-> c.source_code, build |-> b])
       \/ \E s \in DiagSources, b \in Builds :
              \E k \in CompileErrorKinds, sp \in SpansOf(s),
                 op \in {"from_compile_error", "from_compile_errors"} :
                  call = Call(op, [error |-> CompileError(k, sp), source_code |-> s, build |-> b])
       \/ \E text \in PropertyTexts, b \in Builds :
              \E sp \in {SpanEmpty, Span(0, ByteLen(text))} :
                  call = Call("from_parse_error",
                              [error |-> ParseError(LexErrorWithMessage("BackslashProperty"), sp),
                               source_code |-> text, build |-> b])
       \/ \E s \in DiagSources :
              \E k \in WarningKinds, sp \in SpansOf(s) :
                  call = Call("from_warning", [warning |-> Warning(k, sp), source_code |-> s])
       \/ \E k \in 0..MaxOffset, sp \in DiagSpans, b \in Builds :
              call = Call("from_parse_error",
                          [error |-> ParseError(InvalidEscapeInStringAt(k), sp),
                           source_code |-> DiagSource, build |-> b])
       \/ \E e \in LeafErrors, b \in Builds :
              call = Call("from_parse_error",
                          [error |-> e, source_code |-> DiagSource, build |-> b])

FromParseError ==
    /\ call.op = "from_parse_error" /\ ~call.done
    /\ call' = Return(call, from_parse_error(call.arg.error, call.arg.source_code,
                                             call.arg.build))
    /\ UNCHANGED <<src, input, offset, result, pc>>

FromParseErrors ==
    /\ call.op = "from_parse_errors" /\ ~call.done
    /\ call' = Return(call, from_parse_errors(call.arg.error, call.arg.source_code,
                                              call.arg.build))
    /\ UNCHANGED <<src, input, offset, result, pc>>

FromCompileErrors ==
    /\ call.op = "from_compile_errors" /\ ~call.done
    /\ call' = Return(call, from_compile_errors(call.arg.error, call.arg.source_code,
                                                call.arg.build))
    /\ UNCHANGED <<src, input, offset, result, pc>>

FromCompileError ==
    /\ call.op = "from_compile_error" /\ ~call.done
    /\ call' = Return(call, from_compile_error(call.arg.error, call.arg.source_code,
                                               call.arg.build))
    /\ UNCHANGED <<src, input, offset, result, pc>>

FromWarning ==
    /\ call.op = "from_warning" /\ ~call.done
    /\ call' = Return(call, Returned(from_warning(call.arg.warning, call.arg.source_code)))
    /\ UNCHANGED <<src, input, offset, result, pc>>

NextDiag ==
    \/ FromParseError
    \/ FromParseErrors
    \/ FromCompileError
    \/ FromCompileErrors
    \/ FromWarning

SpecDiag == DiagInit /\ [][NextDiag]_vars

(***************************************************************************)
(* C7: from_parse_errors (and from_compile_errors for a wrapped parse      *)
(* error) returns exactly one diagnostic for an error that is not          *)
(* Multiple, and for Multiple(xs) the diagnostics of each x in order, so   *)
(* that their number is the sum over xs at any depth (none for an empty    *)
(* Multiple).                                                              *)
(***************************************************************************)
RECURSIVE C7_Leaves(_)
\* the errors of a ParseError that are not Multiple, from left to right
C7_Leaves(e) ==
    IF e.kind.tag /= "Multiple" THEN <<e>>
    ELSE IF e.kind.errors = <<>> THEN <<>>
    ELSE C7_Leaves(Head(e.kind.errors))
         \o C7_Leaves(ParseError(Multiple(Tail(e.kind.errors)), e.span))

\* a call of one of the two functions with a parse error, wrapped or not
C7_IsParseErrorCall ==
    /\ call.op \in {"from_parse_errors", "from_compile_errors"} /\ call.done
    /\ call.op = "from_compile_errors" => call.arg.error.kind.tag = "ParseError"

\* the ParseError a call was given
C7_Error ==
    IF call.op = "from_compile_errors"
    THEN ParseError(call.arg.error.kind.kind, call.arg.error.span)
    ELSE call.arg.error

C7_Depth2 ==
    /\ C7_Error.kind.tag = "Multiple"
    /\ \E i \in 1..Len(C7_Error.kind.errors) :
           LET x == C7_Error.kind.errors[i]
           IN  /\ x.kind.tag = "Multiple"
               /\ \E j \in 1..Len(x.kind.errors) : x.kind.errors[j].kind.tag = "Multiple"

C7_DiagnosticsFlattened ==
    C7_IsParseErrorCall =>
        LET leaves == C7_Leaves(C7_Error)
        IN  /\ ~call.res.panic
            /\ Len(call.res.val) = Len(leaves)
            /\ \A i \in 1..Len(leaves) :
                   Returned(call.res.val[i]) =
                       from_parse_error(leaves[i], call.arg.source_code,
                                        call.arg.build)
            /\ C7_Error.kind.tag /= "Multiple" => Len(call.res.val) = 1
            /\ C7_Error.kind = Multiple(<<>>) => call.res.val = <<>>

\* errors nested two deep gave the two diagnostics of their leaves, in order
C7_Witness ==
    /\ C7_IsParseErrorCall /\ call.op = "from_compile_errors"
    /\ C7_Depth2
    /\ Len(call.res.val) = 2
    /\ call.res.val[1].msg = Kind("Dot")
    /\ call.res.val[2].span = Span(2, 4)

(***************************************************************************)
(* C8: for InvalidEscapeInStringAt(k) with a span starting at byte s (0    *)
(* when the span is empty) from_parse_error gives a diagnostic with the    *)
(* span [s+k-1, s+k+1) and no help; s+k-1 never underflows, for any        *)
(* k >= 0 and s >= 0.                                                      *)
(***************************************************************************)
C8_IsEscapeCall ==
    /\ call.op = "from_parse_error" /\ call.done
    /\ call.arg.error.kind.tag = "InvalidEscapeInStringAt"

\* s of the claim
C8_Start == IF call.arg.error.span = SpanEmpty THEN 0 ELSE call.arg.error.span.start

C8_Narrowed ==
    /\ ~call.res.panic
    /\ call.res.val.span =
           Span(C8_Start + call.arg.error.kind.offset - 1,
                C8_Start + call.arg.error.kind.offset + 1)
    /\ call.res.val.help = None

C11_Called ==
    /\ call.op \in {"from_parse_error", "from_compile_error", "from_compile_errors",
                    "from_warning"}
    /\ call.done

\* the error or warning of the call
C11_Given == IF call.op = "from_warning" THEN call.arg.warning ELSE call.arg.error

\* its kind, taken out of CompileErrorKind::ParseError
C11_Kind ==
    IF C11_Given.kind.tag = "ParseError" THEN C11_Given.kind.kind ELSE C11_Given.kind

\* the diagnostics the call returned
C11_Diagnostics ==
    IF call.op = "from_compile_errors" THEN call.res.val ELSE <<call.res.val>>

\* a call with one error or warning, not a list of them (Multiple)
C11_IsCall == C11_Called /\ C11_Kind.tag /= "Multiple"

C11_SpanOrSource ==
    IF C11_Given.span = SpanEmpty
    THEN Span(0, ByteLen(call.arg.source_code))
    ELSE C11_Given.span

C11_SeverityByOrigin(d) ==
    IF call.op = "from_warning"
    THEN d.severity = "Warning" /\ d.help = None
    ELSE d.severity = "Error"

C12_IsCall ==
    /\ call.op = "from_parse_error" /\ call.done
    /\ call.arg.error.kind = LexErrorWithMessage("BackslashProperty")

\* the offending slice: the text at the error's span
C12_Slice ==
    IF call.arg.error.span = SpanEmpty THEN call.arg.source_code
    ELSE Slice(call.arg.source_code, call.arg.error.span.start, call.arg.error.span.end)

C12_InName(c) == c \notin {"{", "}", "^"}

\* the name of the property, with _ for + and -
C12_Name ==
    LET inner == SelectSeq(SubSeq(C12_Slice, 3, Len(C12_Slice)), C12_InName)
    IN  [i \in 1..Len(inner) |-> IF inner[i] \in {"+", "-"} THEN "_" ELSE inner[i]]

C12_Suggests(negated) ==
    /\ ~call.res.panic
    /\ call.res.val.help =
           Some(Format(IF negated THEN "Replace {str} with [!{name}]"
                                  ELSE "Replace {str} with [{name}]",
                       <<C12_Slice, C12_Name>>))

\* the claim as made: \P{...} and \p{^...} are the negated forms
C12_NegatedByForm ==
    C12_IsCall =>
        C12_Suggests(\/ starts_with(C12_Slice, <<"\\", "P", "{">>)
                     \/ starts_with(C12_Slice, <<"\\", "p", "{", "^">>))

\* amended: \P negates with or without braces, and \P{^...} negates twice,
\* which gives the positive form
C12_NegatedOnce ==
    C12_IsCall =>
        C12_Suggests(\/ /\ starts_with(C12_Slice, <<"\\", "P">>)
                        /\ ~starts_with(C12_Slice, <<"\\", "P", "{", "^">>)
                     \/ starts_with(C12_Slice, <<"\\", "p", "{", "^">>))

\* \P{^L-c} was answered with the positive [L_c]
C12_Witness ==
    /\ C12_IsCall
    /\ C12_Slice = <<"\\", "P", "{", "^", "L", "-", "c", "}">>
    /\ call.res.val.help =
           Some(Format("Replace {str} with [{name}]", <<C12_Slice, <<"L", "_", "c">>>>))

====
